---- MODULE Spec2Model ----
(***************************************************************************)
(* A model of the rendering and asset-resolution pipeline of sats-group/abc *)
(* (package web and package files).                                        *)
(*                                                                         *)
(* Strings are sequences of tokens.  A token is one or more characters;    *)
(* "/" is the path separator, a token of DotTokens begins with the          *)
(* character '.', the token "_" is the underscore, every other token is a  *)
(* run of letters.                                                         *)
(***************************************************************************)
EXTENDS Integers, Sequences, FiniteSets, TLC

VARIABLES
    prod,       \* Config.Prod
    hasBackend, \* Config.backend() is not empty
    layout,     \* Config.layout(): the layout's template name, <<>> if none
    site,       \* the template directory: file path -> content, "absent" if no file
    funcs,      \* engine.funcs: the names of the registered helper functions
    templates,  \* engine.templates: [nil, set, funcs, yield]
    alive,      \* FALSE once the process has exited
    resp,       \* the response written for the last request
    last,       \* what the last engine or proxy operation did (history)
    rmemo,      \* a Render made since the last change of state (history)
    tree,       \* the asset files of the site directory: path -> bytes, "absent"
    cache,      \* assets.cache: key -> assetCache
    clock,      \* time.Now(), a logical clock
    edits,      \* how many times an asset file was changed (history)
    issued,     \* the bundle names Combined has returned (history)
    memo,       \* a Combined call made since the last change of a file (history)
    alast,      \* what the last asset operation did (history)
    procs       \* the requests in flight: goroutine -> position and locals

engineVars == <<layout, site, funcs, templates, resp, last, rmemo>>

assetVars == <<tree, cache, clock, edits, issued, memo, alast>>

vars == <<prod, hasBackend, procs, alive, engineVars, assetVars>>

----------------------------------------------------------------------------
(* Bounds *)

\* how deep a yield closure may re-enter the renderer before the stack is gone
MaxDepth == 3

\* how many times an asset file is changed
MaxEdits == 1

\* how far the clock runs while no file is changed
MaxClock == 2

----------------------------------------------------------------------------
(* package strings / path/filepath, over token sequences *)

DotTokens == {".", ".html", ".tmpl", ".txt", ".css", ".js", ".md"}

HasPrefix(s, p) == Len(s) >= Len(p) /\ SubSeq(s, 1, Len(p)) = p

HasSuffix(s, p) == Len(s) >= Len(p) /\ SubSeq(s, Len(s) - Len(p) + 1, Len(s)) = p

TrimPrefix(s, p) == IF HasPrefix(s, p) THEN SubSeq(s, Len(p) + 1, Len(s)) ELSE s

TrimSuffix(s, p) == IF HasSuffix(s, p) THEN SubSeq(s, 1, Len(s) - Len(p)) ELSE s

\* filepath.Ext: the suffix beginning at the final dot of the final element
Ext(path) ==
    LET dots == {i \in 1..Len(path) :
                    /\ path[i] \in DotTokens
                    /\ \A j \in i..Len(path) : path[j] # "/"}
    IN IF dots = {} THEN <<>>
       ELSE LET i == CHOOSE k \in dots : \A m \in dots : m <= k
            IN SubSeq(path, i, Len(path))

----------------------------------------------------------------------------
(* Config *)

frontendExt == <<".html">>

backendExt == <<".tmpl">>


----------------------------------------------------------------------------
(* The site directory *)

\* the files the directory may hold, in the lexical order filepath.Walk visits them
SiteFiles == << <<"about", "/", "index", ".html">>,
                <<"index", ".html">>, <<"layout", ".html">>,
                <<"note", ".txt">>, <<"widget", ".tmpl">> >>

FileSet == {SiteFiles[i] : i \in 1..Len(SiteFiles)}

\* template bodies: "a" and "b" are plain pages, "y" calls the yield helper,
\* "bad" does not parse
Contents(f) ==
    CASE f = <<"about", "/", "index", ".html">> -> {"absent", "a"}
      [] f = <<"index", ".html">>  -> {"a", "b", "bad"}
      [] f = <<"layout", ".html">> -> {"y"}
      [] f = <<"note", ".txt">>    -> {"a"}
      [] f = <<"widget", ".tmpl">> -> {"absent", "a"}

\* http.Dir(dir).Open(file) succeeds: Open cleans "/" + file
HasSiteFile(dir, file) ==
    LET rel == TrimPrefix(file, <<"/">>)
    IN rel \in DOMAIN dir /\ dir[rel] # "absent"

----------------------------------------------------------------------------
(* engine *)

templateName(path) == TrimPrefix(TrimSuffix(path, Ext(path)), <<"/">>)

\* engine.expandPath leaving a directory path as it is
expandPath_asis(path) == path

expandPath(path) ==
    IF HasSuffix(path, <<"/">>) THEN path \o <<"index", ".html">> ELSE path

skipFile(dir, file) == ~HasSiteFile(dir, file)

skipPath(dir, file) ==
    LET ext == Ext(file)
    IN IF Len(ext) > 0 /\ ext # frontendExt THEN TRUE
       ELSE IF Len(ext) > 0 THEN skipFile(dir, file)
       ELSE skipFile(dir, file \o frontendExt)

\* tmpl.Yield, the yield helper of tmpl.Funcs: the empty string
DefaultYield == [bound |-> FALSE, name |-> << >>, env |-> << >>]

\* engine.templates before the first compile and after funcMap
Nil == [nil |-> TRUE, set |-> << >>, funcs |-> {}, yield |-> DefaultYield]

\* engine.compileTemplate: the template `name` parsed from `body` joins the set.
\* A file that fails to parse stays in the set, unparsed, and ends the walk.
compileTemplate(acc, rel, name, body) ==
    [set   |-> [n \in DOMAIN acc.set \cup {name} |->
                   IF n = name THEN body ELSE acc.set[n]],
     reads |-> Append(acc.reads, rel),
     err   |-> body = "bad",
     funcs |-> acc.funcs]

\* the callback of files.Walk in compileTemplates, for the files i.. of the walk
RECURSIVE compileWalk(_, _, _)
compileWalk(dir, i, acc) ==
    IF i > Len(SiteFiles) \/ acc.err THEN acc
    ELSE IF dir[SiteFiles[i]] = "absent"
            \/ Ext(SiteFiles[i]) \notin {frontendExt, backendExt}
    THEN compileWalk(dir, i + 1, acc)
    ELSE compileWalk(dir, i + 1,
                     compileTemplate(acc, SiteFiles[i], templateName(SiteFiles[i]),
                                     dir[SiteFiles[i]]))

\* engine.compileTemplates: a new template set, then the walk
compileTemplates(dir, fns) ==
    compileWalk(dir, 1, [set |-> << >>, reads |-> << >>, err |-> FALSE,
                         funcs |-> fns])

\* the engine.templates a compile leaves behind
Registry(c) ==
    [nil |-> FALSE, set |-> c.set, funcs |-> c.funcs, yield |-> DefaultYield]

Failed == [err |-> TRUE, overflow |-> FALSE, out |-> << >>]

\* the output of a template that calls yield, given what yield returned
yieldOut(name, env, inner) ==
    [err |-> FALSE, overflow |-> inner.overflow,
     out |-> <<name, "y", env, IF inner.err THEN << >> ELSE inner.out>>]

\* template.ExecuteTemplate of `name` with env; yield calls re-enter through the
\* closure bound in the set.  depth counts the frames left on the stack.
RECURSIVE executeTemplate(_, _, _, _)
executeTemplate(reg, name, env, depth) ==
    IF name \notin DOMAIN reg.set THEN Failed
    ELSE IF reg.set[name] = "bad" THEN Failed
    ELSE IF reg.set[name] # "y"
    THEN [err |-> FALSE, overflow |-> FALSE, out |-> <<name, reg.set[name], env>>]
    ELSE IF ~reg.yield.bound
    THEN [err |-> FALSE, overflow |-> FALSE, out |-> <<name, "y", env, << >> >>]
    ELSE IF depth = 0
    THEN [err |-> FALSE, overflow |-> TRUE, out |-> << >>]
    ELSE yieldOut(name, env,
                  executeTemplate(reg, reg.yield.name, reg.yield.env, depth - 1))

\* engine.template
template(reg, file, env) == executeTemplate(reg, templateName(file), env, MaxDepth)

\* engine.funcMapLayout binding yield only while it is still tmpl.Yield
funcMapLayout_once(reg, name, env) ==
    IF name \in DOMAIN reg.set /\ ~reg.yield.bound
    THEN [reg EXCEPT !.yield = [bound |-> TRUE, name |-> name, env |-> env]]
    ELSE reg

\* engine.funcMapLayout: rebinds yield when the target template is in the set
funcMapLayout(reg, name, env) ==
    IF name \in DOMAIN reg.set
    THEN [reg EXCEPT !.yield = [bound |-> TRUE, name |-> name, env |-> env]]
    ELSE reg

\* what engine.execute returns and leaves in engine.templates
executed(reg, r, compiled, reads) ==
    [templates |-> reg, err |-> r.err, overflow |-> r.overflow, out |-> r.out,
     compiled |-> compiled, reads |-> reads]

\* engine.execute, lines 75: the template is executed
executeIn(reg, file, env, compiled, reads) ==
    executed(reg, template(reg, file, env), compiled, reads)

\* engine.execute, lines 70-73: with a layout, yield is rebound and the layout
\* is what is executed
executeLayout(reg, lay, file, env, compiled, reads) ==
    IF lay # << >>
    THEN executeIn(funcMapLayout(reg, templateName(file), env), lay, env,
                   compiled, reads)
    ELSE executeIn(reg, file, env, compiled, reads)

\* engine.execute, lines 65-67: a failed compile is returned
executeCompiled(c, lay, file, env) ==
    IF c.err THEN executed(Registry(c), Failed, TRUE, c.reads)
    ELSE executeLayout(Registry(c), lay, file, env, TRUE, c.reads)

\* engine.execute without the development-mode recompile
execute_warm(tpls, fns, dir, isProd, lay, file, env) ==
    IF tpls.nil
    THEN executeCompiled(compileTemplates(dir, fns), lay, file, env)
    ELSE executeLayout(tpls, lay, file, env, FALSE, << >>)

\* engine.execute on the engine state (tpls, fns) and directory dir
execute(tpls, fns, dir, isProd, lay, file, env) ==
    IF tpls.nil \/ ~isProd
    THEN executeCompiled(compileTemplates(dir, fns), lay, file, env)
    ELSE executeLayout(tpls, lay, file, env, FALSE, << >>)

----------------------------------------------------------------------------
(* encoding/json, over token sequences.  Only flat documents occur: a       *)
(* scalar, an array of scalars, an object of scalar members.               *)

Punct == {"{", "}", "[", "]", ":", ","}

IsScalar(t) == t \notin Punct

\* s[i..j] is scalar ("," scalar)*
RECURSIVE IsElements(_, _, _)
IsElements(s, i, j) ==
    /\ i <= j
    /\ IsScalar(s[i])
    /\ \/ i = j
       \/ i + 2 <= j /\ s[i + 1] = "," /\ IsElements(s, i + 2, j)

\* s[i..j] is key ":" scalar ("," key ":" scalar)*
RECURSIVE IsMembers(_, _, _)
IsMembers(s, i, j) ==
    /\ i + 2 <= j
    /\ IsScalar(s[i]) /\ s[i + 1] = ":" /\ IsScalar(s[i + 2])
    /\ \/ i + 2 = j
       \/ i + 4 <= j /\ s[i + 3] = "," /\ IsMembers(s, i + 4, j)

IsObject(s) ==
    /\ Len(s) >= 2 /\ s[1] = "{" /\ s[Len(s)] = "}"
    /\ Len(s) = 2 \/ IsMembers(s, 2, Len(s) - 1)

IsArray(s) ==
    /\ Len(s) >= 2 /\ s[1] = "[" /\ s[Len(s)] = "]"
    /\ Len(s) = 2 \/ IsElements(s, 2, Len(s) - 1)

ValidJSON(s) == IsObject(s) \/ IsArray(s) \/ (Len(s) = 1 /\ IsScalar(s[1]))

NL == "\n"

Indent2 == "  "

\* the inside of a container, one member or element per line
RECURSIVE indentInner(_, _, _)
indentInner(s, i, j) ==
    IF i > j THEN << >>
    ELSE IF s[i] = "," THEN <<",", NL, Indent2>> \o indentInner(s, i + 1, j)
    ELSE IF s[i] = ":" THEN <<":", " ">> \o indentInner(s, i + 1, j)
    ELSE <<s[i]>> \o indentInner(s, i + 1, j)

\* json.Indent(dst, body, "", "  "); requires ValidJSON(s)
jsonIndent(s) ==
    IF Len(s) <= 2 THEN s
    ELSE <<s[1], NL, Indent2>> \o indentInner(s, 2, Len(s) - 1) \o <<NL, s[Len(s)]>>

\* json.Unmarshal(body, &data) into a map: the members, later keys winning
RECURSIVE jsonMembers(_, _, _)
jsonMembers(s, i, j) ==
    IF i > j THEN << >>
    ELSE LET rest == jsonMembers(s, i + 4, j)
         IN [k \in {s[i]} \cup DOMAIN rest |->
                IF k \in DOMAIN rest THEN rest[k] ELSE s[i + 2]]

jsonUnmarshal(s) ==
    IF IsObject(s)
    THEN [err |-> FALSE, data |-> jsonMembers(s, 2, Len(s) - 1)]
    ELSE [err |-> TRUE, data |-> << >>]

----------------------------------------------------------------------------
(* files.Ignore *)

\* the regular expression \.[^.] matches at token i
DotThenOther(p, i) ==
    /\ i <= Len(p)
    /\ p[i] \in DotTokens
    /\ p[i] = "." => (i + 1 <= Len(p) /\ p[i + 1] \notin DotTokens)

Ignore(p) ==
    \/ Len(p) >= 1 /\ p[1] = "_"
    \/ \E i \in 1..Len(p) : p[i] = "/" /\ i + 1 <= Len(p) /\ p[i + 1] = "_"
    \/ DotThenOther(p, 1)
    \/ \E i \in 1..Len(p) : p[i] = "/" /\ DotThenOther(p, i + 1)

----------------------------------------------------------------------------
(* package files, over a directory given as the map tree.  A directory      *)
(* exists when a file lies beneath it; <<".">> is the site directory.       *)

\* the byte order of the first characters of tokens: '.' < '_' < letters
TokRank(t) ==
    CASE t = "." -> 1 [] t = "_" -> 2 [] t = "a" -> 3 [] t = "b" -> 4
      [] t = "c" -> 5 [] t = "d" -> 6 [] t = "e" -> 7 [] t = "h" -> 8
      [] t = "n" -> 9 [] t = "x" -> 10 [] t = "y" -> 11 [] t = "z" -> 12
      [] OTHER -> 13

\* s sorts before t or is t (names hold no "/")
RECURSIVE NameLeq(_, _)
NameLeq(s, t) ==
    IF s = << >> THEN TRUE
    ELSE IF t = << >> THEN FALSE
    ELSE IF Head(s) # Head(t) THEN TokRank(Head(s)) < TokRank(Head(t))
    ELSE NameLeq(Tail(s), Tail(t))

\* ioutil.ReadDir sorts the entries by file name
RECURSIVE SortNames(_)
SortNames(S) ==
    IF S = {} THEN << >>
    ELSE LET m == CHOOSE x \in S : \A y \in S : NameLeq(x, y)
         IN <<m>> \o SortNames(S \ {m})

Present(t) == {f \in DOMAIN t : t[f] # "absent"}

\* files.HasFile
HasFile(t, p) == p \in Present(t)

DirPrefix(p) == IF p = <<".">> THEN << >> ELSE p \o <<"/">>

\* files.HasDir
HasDir(t, p) == \E f \in Present(t) : HasPrefix(f, DirPrefix(p)) /\ f # DirPrefix(p)

\* the first path element of s
RECURSIVE FirstElem(_)
FirstElem(s) ==
    IF s = << >> THEN << >>
    ELSE IF Head(s) = "/" THEN << >>
    ELSE <<Head(s)>> \o FirstElem(Tail(s))

\* the names ioutil.ReadDir(p) returns
EntryNames(t, p) ==
    {FirstElem(TrimPrefix(f, DirPrefix(p))) :
        f \in {g \in Present(t) : HasPrefix(g, DirPrefix(p))}}

\* path.Join(source, name)
pathJoin(source, name) == DirPrefix(source) \o name

\* files.List
RECURSIVE List(_, _)
RECURSIVE listEntries(_, _, _, _)
List(t, source) ==
    IF Ignore(source) THEN << >>
    ELSE IF HasFile(t, source) THEN <<source>>
    ELSE IF ~HasDir(t, source) THEN << >>
    ELSE listEntries(t, source, SortNames(EntryNames(t, source)), 1)

\* the loop of files.List over the entries i.. of the directory
listEntries(t, source, names, i) ==
    IF i > Len(names) THEN << >>
    ELSE IF Ignore(pathJoin(source, names[i]))
    THEN listEntries(t, source, names, i + 1)
    ELSE IF HasDir(t, pathJoin(source, names[i]))
    THEN List(t, pathJoin(source, names[i])) \o listEntries(t, source, names, i + 1)
    ELSE <<pathJoin(source, names[i])>> \o listEntries(t, source, names, i + 1)

----------------------------------------------------------------------------
(* assets: path resolution.  The site directory is Config.dir() = ".", so   *)
(* filepath.Rel(a.dir, abs) is abs.                                          *)

\* filepath.Join(".", source) for a source with no "." or ".." elements and no
\* doubled separators: leading and trailing separators go, "" is "."
RECURSIVE TrimSlashes(_)
TrimSlashes(s) ==
    IF HasPrefix(s, <<"/">>) THEN TrimSlashes(Tail(s))
    ELSE IF HasSuffix(s, <<"/">>) THEN TrimSlashes(SubSeq(s, 1, Len(s) - 1))
    ELSE s

filepathJoin(source) ==
    IF TrimSlashes(source) = << >> THEN <<".">> ELSE TrimSlashes(source)

\* assets.prefixPath
prefixPath(source, rel) ==
    IF HasPrefix(source, <<"/">>) /\ ~HasPrefix(rel, <<"/">>)
    THEN <<"/">> \o rel
    ELSE rel

\* the loop of assets.resolvePath over files.List's result
RECURSIVE prefixAll(_, _)
prefixAll(source, files) ==
    IF files = << >> THEN << >>
    ELSE <<prefixPath(source, Head(files))>> \o prefixAll(source, Tail(files))

\* assets.resolvePath
resolvePath(t, source) == prefixAll(source, List(t, filepathJoin(source)))

\* assets.resolvePaths
RECURSIVE resolvePaths(_, _)
resolvePaths(t, sources) ==
    IF sources = << >> THEN << >>
    ELSE resolvePath(t, Head(sources)) \o resolvePaths(t, Tail(sources))

----------------------------------------------------------------------------
(* assets: the five asset types, the cache, inline / linked / combined      *)

paste == [name |-> "paste", ext |-> << >>, proc |-> "none"]

tpl == [name |-> "tpl", ext |-> << >>, proc |-> "none"]

md == [name |-> "md", ext |-> <<".md">>, proc |-> "markdown"]

css == [name |-> "css", ext |-> <<".css">>, proc |-> "none"]

js == [name |-> "js", ext |-> <<".js">>, proc |-> "none"]

\* the asset type called name
TypeOf(name) == CHOOSE t \in {paste, tpl, md, css, js} : t.name = name

\* a payload is the chunks read from the files, in order, and the processor
\* that was applied to the whole
NoBytes == [proc |-> "none", chunks |-> << >>]

\* markdown: the sanitized HTML of the markdown source
markdown(b) == [b EXCEPT !.proc = "markdown"]

\* t.proc(b), when t.proc is set
process(t, b) == IF t.proc = "markdown" THEN markdown(b) ELSE b

\* fmt.Sprintf(t.html, url, content)
Sprintf(t, url, content) == [html |-> t.name, url |-> url, content |-> content]

\* mime.TypeByExtension
mimeOf(ext) ==
    CASE ext = <<".css">> -> "text/css; charset=utf-8"
      [] ext = <<".js">>  -> "application/javascript"
      [] OTHER            -> ""

\* strings.Join(paths, "")
RECURSIVE Join(_)
Join(paths) == IF paths = << >> THEN << >> ELSE Head(paths) \o Join(Tail(paths))

\* hash: the first 12 hex digits of the SHA-1 of seed, taken as free of
\* collisions and as never equal to the path of a site file
hash(seed) == <<"#">> \o seed

\* concatRoot: "/assets/" and the hash of the start time of the process
concatRoot == <<"/", "assets", "/", "#root", "/">>

\* assets.bufferFromPath for each resolved file: the chunks and the files read
RECURSIVE readAll(_, _)
readAll(t, files) ==
    IF files = << >> THEN << >>
    ELSE IF HasFile(t, TrimPrefix(Head(files), <<"/">>))
    THEN <<[file |-> TrimPrefix(Head(files), <<"/">>),
            ver  |-> t[TrimPrefix(Head(files), <<"/">>)]]>> \o readAll(t, Tail(files))
    ELSE readAll(t, Tail(files))

\* assets.bytesFromPaths
bytesFromPaths(t, paths) == [proc |-> "none", chunks |-> readAll(t, resolvePaths(t, paths))]

\* the files a payload was read from
RECURSIVE filesOf(_)
filesOf(chunks) ==
    IF chunks = << >> THEN << >> ELSE <<Head(chunks).file>> \o filesOf(Tail(chunks))

\* the key of a bundle, assets.combosFromPaths line 170
comboName(t, paths) == hash(Join(paths)) \o t.ext

\* the entry assets.combosFromPaths stores, lines 176-188
comboEntry(t, paths, name, b, now) ==
    [name |-> name, mime |-> mimeOf(t.ext), time |-> now, paths |-> paths,
     bytes |-> process(t, b)]

\* the cache with entry e under key k
Store(c, k, e) == [x \in DOMAIN c \cup {k} |-> IF x = k THEN e ELSE c[x]]

\* assets.combosFromPaths filing the entry under the bare hash
combosAt_misfiled(t, tr, c, isProd, paths, name, now) ==
    IF name \in DOMAIN c /\ isProd
    THEN [cache |-> c, entry |-> c[name], reads |-> << >>, stored |-> FALSE,
          key |-> name, hit |-> TRUE]
    ELSE [cache |-> Store(c, TrimSuffix(name, t.ext),
                          comboEntry(t, paths, name, bytesFromPaths(tr, paths), now)),
          entry |-> comboEntry(t, paths, name, bytesFromPaths(tr, paths), now),
          reads |-> filesOf(bytesFromPaths(tr, paths).chunks), stored |-> TRUE,
          key |-> name, hit |-> FALSE]

\* assets.combosFromPaths on key `name`
combosAt(t, tr, c, isProd, paths, name, now) ==
    IF name \in DOMAIN c /\ isProd
    THEN [cache |-> c, entry |-> c[name], reads |-> << >>, stored |-> FALSE,
          key |-> name, hit |-> TRUE]
    ELSE [cache |-> Store(c, name, comboEntry(t, paths, name,
                                              bytesFromPaths(tr, paths), now)),
          entry |-> comboEntry(t, paths, name, bytesFromPaths(tr, paths), now),
          reads |-> filesOf(bytesFromPaths(tr, paths).chunks), stored |-> TRUE,
          key |-> name, hit |-> FALSE]

\* assets.combosFromPaths hashing the clock reading into the key
combosFromPaths_stamped(t, tr, c, isProd, paths, now) ==
    combosAt(t, tr, c, isProd, paths,
             hash(Join(paths) \o <<<<"t1", "t2", "t3", "t4", "t5", "t6">>[now]>>) \o t.ext, now)

\* assets.combosFromPaths
combosFromPaths(t, tr, c, isProd, paths, now) ==
    combosAt(t, tr, c, isProd, paths, comboName(t, paths), now)

\* the entry assets.inlinedFromPath stores, line 214
inlineEntry(t, name, b) ==
    [name |-> name, mime |-> "", time |-> 0, paths |-> << >>, bytes |-> process(t, b)]

\* assets.inlinedFromPath trusting the cache in development mode too
inlinedFromPath_trusting(t, tr, c, isProd, name) ==
    IF name \in DOMAIN c
    THEN [cache |-> c, entry |-> c[name], reads |-> << >>, stored |-> FALSE,
          key |-> name, hit |-> TRUE]
    ELSE [cache |-> Store(c, name, inlineEntry(t, name, bytesFromPaths(tr, <<name>>))),
          entry |-> inlineEntry(t, name, bytesFromPaths(tr, <<name>>)),
          reads |-> filesOf(bytesFromPaths(tr, <<name>>).chunks), stored |-> TRUE,
          key |-> name, hit |-> FALSE]

\* assets.inlinedFromPath
inlinedFromPath(t, tr, c, isProd, name) ==
    IF name \in DOMAIN c /\ isProd
    THEN [cache |-> c, entry |-> c[name], reads |-> << >>, stored |-> FALSE,
          key |-> name, hit |-> TRUE]
    ELSE [cache |-> Store(c, name, inlineEntry(t, name, bytesFromPaths(tr, <<name>>))),
          entry |-> inlineEntry(t, name, bytesFromPaths(tr, <<name>>)),
          reads |-> filesOf(bytesFromPaths(tr, <<name>>).chunks), stored |-> TRUE,
          key |-> name, hit |-> FALSE]

\* one round of the loop of assets.inlinedFromPaths: the lookup r joins acc
inlinedNext(acc, r) ==
    [cache |-> r.cache, items |-> Append(acc.items, r.entry),
     reads |-> acc.reads \o r.reads,
     looks |-> Append(acc.looks, [key |-> r.key, hit |-> r.hit, entry |-> r.entry])]

\* assets.inlinedFromPaths
RECURSIVE inlinedFromPaths(_, _, _, _, _)
inlinedFromPaths(t, tr, isProd, paths, acc) ==
    IF paths = << >> THEN acc
    ELSE inlinedFromPaths(t, tr, isProd, Tail(paths),
             inlinedNext(acc, inlinedFromPath(t, tr, acc.cache, isProd, Head(paths))))

\* the tags of assets.inlined, lines 160-163; a.root is "" (no path prefix)
RECURSIVE inlineTags(_, _)
inlineTags(t, items) ==
    IF items = << >> THEN << >>
    ELSE <<Sprintf(t, Head(items).name, Head(items).bytes)>> \o inlineTags(t, Tail(items))

\* assets.inlined(t)(sources...), sources already unpacked
inlined(t, tr, c, isProd, sources) ==
    inlinedFromPaths(t, tr, isProd, resolvePaths(tr, sources),
                     [cache |-> c, items |-> << >>, reads |-> << >>, looks |-> << >>])

\* the tags of assets.file, lines 145-147
RECURSIVE fileTags(_, _)
fileTags(t, files) ==
    IF files = << >> THEN << >>
    ELSE <<Sprintf(t, Head(files), NoBytes)>> \o fileTags(t, Tail(files))

\* assets.file(t)(sources...)
assetsFile(t, tr, sources) == fileTags(t, resolvePaths(tr, sources))

\* the href of assets.combined, lines 129-135
comboHref(pack, name) ==
    IF HasPrefix(pack[1], <<"/">>) THEN concatRoot \o name
    ELSE TrimPrefix(concatRoot \o name, <<"/">>)

\* assets.combined(t)(sources...) after combosFromPaths returned r; pack[0]
\* of an empty pack panics
combinedTag(t, pack, r) ==
    [cache |-> r.cache, entry |-> r.entry, reads |-> r.reads, stored |-> r.stored,
     key |-> r.key, hit |-> r.hit, panic |-> pack = << >>,
     tags |-> IF pack = << >> THEN << >>
              ELSE <<Sprintf(t, comboHref(pack, r.entry.name), NoBytes)>>]

\* assets.combined(t)(sources...), sources already unpacked
combined(t, tr, c, isProd, pack, now) ==
    combinedTag(t, pack, combosFromPaths(t, tr, c, isProd, pack, now))

----------------------------------------------------------------------------
(* Responses.  status 0: nothing was written.  late is the status a handler *)
(* tried to send after the header had gone out (it never reaches the wire). *)

HTML == "text/html; charset=UTF-8"

NoResp == [status |-> 0, ctype |-> "", body |-> << >>, late |-> 0]

\* http404: http.Error(rw, "404 Not Found", 404)
http404 == [status |-> 404, ctype |-> "text/plain; charset=utf-8",
            body |-> <<"404 Not Found">>, late |-> 0]

\* engine.createEnv: caller keys over prod and config (no Config.JSON files)
createEnv(isProd, data) ==
    LET base == [prod |-> IF isProd THEN "true" ELSE "false", config |-> "null"]
    IN [k \in DOMAIN base \cup DOMAIN data |->
           IF k \in DOMAIN data THEN data[k] ELSE base[k]]

\* engine.respond answering an error of execute as a server fault
responded_fault(ex, writeErr) ==
    [templates |-> ex.templates, compiled |-> ex.compiled, reads |-> ex.reads,
     rendered |-> TRUE, exit |-> ex.overflow,
     resp |-> IF ex.overflow THEN NoResp
              ELSE IF ex.err \/ writeErr
              THEN [status |-> 500, ctype |-> HTML, body |-> << >>, late |-> 0]
              ELSE [status |-> 200, ctype |-> HTML, body |-> ex.out, late |-> 0]]

\* engine.respond after execute; writeErr: out.WriteTo(rw) fails.  A yield
\* closure that never returns exhausts the goroutine stack, which ends the process.
responded(ex, writeErr) ==
    [templates |-> ex.templates, compiled |-> ex.compiled, reads |-> ex.reads,
     rendered |-> TRUE, exit |-> ex.overflow,
     resp |-> IF ex.overflow THEN NoResp
              ELSE IF ex.err THEN http404
              ELSE IF writeErr
              THEN [status |-> 200, ctype |-> HTML, body |-> << >>, late |-> 500]
              ELSE [status |-> 200, ctype |-> HTML, body |-> ex.out, late |-> 0]]

\* engine.respond
respond(tpls, fns, dir, isProd, lay, status, file, data, writeErr) ==
    responded(execute(tpls, fns, dir, isProd, lay, file, createEnv(isProd, data)),
              writeErr)

\* a handler result that leaves the engine alone
Plain(tpls, r, exit) ==
    [templates |-> tpls, compiled |-> FALSE, reads |-> << >>, rendered |-> FALSE,
     exit |-> exit, resp |-> r]

----------------------------------------------------------------------------
(* proxy.  A backend round trip ends in one of:                            *)
(*   [kind |-> "badreq"]     http.NewRequest fails                          *)
(*   [kind |-> "transport"]  client.Do fails                                *)
(*   [kind |-> "readerr"]    reading the response body fails                *)
(*   [kind |-> "response", status, body, closeErr]                          *)

\* proxy.decorateJSON
decorateJSON(tpls, res, writeErr) ==
    IF ~ValidJSON(res.body)
    THEN [err |-> TRUE, r |-> Plain(tpls, NoResp, FALSE)]
    ELSE [err |-> writeErr,
          r |-> Plain(tpls, [status |-> res.status, ctype |-> "",
                             body |-> IF writeErr THEN << >> ELSE jsonIndent(res.body),
                             late |-> 0], FALSE)]

\* proxy.decorate, lines 99-105
decorateTemplate(tpls, fns, dir, isProd, lay, tmpl, status, un, writeErr) ==
    IF un.err THEN [err |-> TRUE, r |-> Plain(tpls, NoResp, FALSE)]
    ELSE [err |-> FALSE,
          r |-> respond(tpls, fns, dir, isProd, lay, status, tmpl, un.data, writeErr)]

\* the candidate decoration template of proxy.decorate, lines 90-92
decorationFile(path) ==
    TrimSuffix(TrimPrefix(path, <<"/">>), Ext(TrimPrefix(path, <<"/">>))) \o backendExt

\* the deferred Body.Close of proxy.decorate replaces the returned error
closed(d, closeErr) == [err |-> d.err \/ closeErr, r |-> d.r]

\* proxy.decorate
decorate(tpls, fns, dir, isProd, lay, path, res, writeErr) ==
    IF res.kind = "readerr" THEN [err |-> TRUE, r |-> Plain(tpls, NoResp, FALSE)]
    ELSE IF skipFile(dir, decorationFile(path))
    THEN closed(decorateJSON(tpls, res, writeErr), res.closeErr)
    ELSE closed(decorateTemplate(tpls, fns, dir, isProd, lay, decorationFile(path),
                                 res.status, jsonUnmarshal(res.body), writeErr),
                res.closeErr)

\* proxy.ServeHTTP, lines 34-37: fail is log.Fatalln, which exits the process;
\* the call of next after it is never reached
fail(d) == [templates |-> d.r.templates, compiled |-> d.r.compiled,
            reads |-> d.r.reads, rendered |-> d.r.rendered,
            exit |-> d.r.exit \/ d.err, resp |-> d.r.resp]

\* proxy.ServeHTTP
proxyServeHTTP(tpls, fns, dir, isProd, lay, path, res, writeErr) ==
    IF res.kind \in {"badreq", "transport"} THEN Plain(tpls, NoResp, TRUE)
    ELSE fail(decorate(tpls, fns, dir, isProd, lay, path, res, writeErr))

----------------------------------------------------------------------------
(* The request pipeline *)

Methods == {"GET", "POST"}

ReqPaths == { <<"/">>, <<"/", "widget">>, <<"/", "missing">>,
              <<"/", "note", ".txt">> }

\* backend response bodies: an object, an array, a truncated document
Bodies == { <<"{", "name", ":", "x", "}">>, <<"[", "1", "]">>, <<"{", "name">> }

Statuses == {200, 201}

NoBackend == [kind |-> "none", status |-> 0, body |-> << >>, closeErr |-> FALSE]

Outcomes ==
    {[NoBackend EXCEPT !.kind = k] : k \in {"badreq", "transport", "readerr"}}
    \cup [kind : {"response"}, status : Statuses, body : Bodies, closeErr : BOOLEAN]

\* newIgnore: a 404 before route dispatch
ignored(proxied, path) == (proxied /\ HasSuffix(path, backendExt)) \/ Ignore(path)

\* negroni.Static serves an existing file, index.html for a directory
staticFile(path) ==
    IF HasSuffix(path, <<"/">>) THEN path \o <<"index", ".html">> ELSE path

staticServes(dir, method, path) == method = "GET" /\ HasSiteFile(dir, staticFile(path))

staticResp(dir, path) ==
    [status |-> 200, ctype |-> "static",
     body |-> <<dir[TrimPrefix(staticFile(path), <<"/">>)]>>, late |-> 0]

\* Web.newAfter with development order in production too
newAfter_fresh(isProd, proxied) ==
    <<"nocache", "engine", "static">>
    \o (IF proxied THEN <<"proxy">> ELSE << >>) \o <<"notfound">>

\* Web.newAfter: the handlers after route dispatch; newProxy is nil, and left
\* out by append, when no backend is configured
newAfter(isProd, proxied) ==
    IF isProd
    THEN <<"engine", "static", "nocache">>
         \o (IF proxied THEN <<"proxy">> ELSE << >>) \o <<"notfound">>
    ELSE <<"nocache", "engine", "static">>
         \o (IF proxied THEN <<"proxy">> ELSE << >>) \o <<"notfound">>

\* handler h answers the request itself; otherwise it calls next
answers(h, dir, method, path) ==
    CASE h = "engine"   -> method = "GET" /\ ~skipPath(dir, expandPath(path))
      [] h = "static"   -> staticServes(dir, method, path)
      [] h = "nocache"  -> FALSE
      [] h = "proxy"    -> TRUE
      [] h = "notfound" -> TRUE

\* negroni runs the handlers of stack from position i; nc: middleware.NoCache
\* has set its headers on the response
RECURSIVE after(_, _, _, _, _, _)
after(stack, i, nc, dir, method, path) ==
    IF i > Len(stack) THEN [via |-> "none", nocache |-> nc]
    ELSE IF answers(stack[i], dir, method, path)
    THEN [via |-> stack[i], nocache |-> nc]
    ELSE after(stack, i + 1, nc \/ stack[i] = "nocache", dir, method, path)

\* which handler answers, and whether the no-cache headers were set before it
route(dir, isProd, proxied, method, path) ==
    IF ignored(proxied, path) THEN [via |-> "ignore", nocache |-> FALSE]
    ELSE after(newAfter(isProd, proxied), 1, FALSE, dir, method, path)

\* newStack: the handler `via` of the stack answers
serve(via, tpls, fns, dir, isProd, lay, path, res, writeErr) ==
    CASE via = "ignore" -> Plain(tpls, http404, FALSE)
      [] via = "engine" -> respond(tpls, fns, dir, isProd, lay, 200,
                                   expandPath(path), << >>, writeErr)
      [] via = "static" -> Plain(tpls, staticResp(dir, path), FALSE)
      [] via = "proxy"  -> proxyServeHTTP(tpls, fns, dir, isProd, lay, path,
                                          res, writeErr)
      [] via = "notfound" -> Plain(tpls, http404, FALSE)

----------------------------------------------------------------------------
(* Actions *)

NoOp == [op |-> "init", via |-> "", path |-> << >>, hadTemplates |-> FALSE,
         compiled |-> FALSE, reads |-> << >>, rendered |-> FALSE,
         backend |-> NoBackend, tmplExists |-> FALSE, nocache |-> FALSE,
         werr |-> FALSE, env |-> << >>, method |-> ""]

NoRender == [set |-> FALSE, path |-> << >>, env |-> << >>, err |-> FALSE,
             out |-> << >>]

BaseFuncs == {"join", "noescape", "slug", "title", "when", "yield",
              "paste", "tpl", "md", "css", "js"}

\* the asset files the site directory may hold
AssetFiles == { <<"a">>, <<"a", "b">>, <<"b", "c">>, <<"c">>,
                <<"d", "/", "x">>, <<"d", "/", "_", "y">>, <<"d", "/", ".", "h">>,
                <<"d", "/", ".", ".", "n">>, <<"d", "/", "e", "/", "z">>,
                <<"_", "p", "/", "x">> }

\* the asset files of the site the server starts on
StartFiles == { <<"a">>, <<"a", "b">>, <<"b", "c">>, <<"c">>,
                <<"d", "/", "x">>, <<"d", "/", "_", "y">> }

NoEntry == [name |-> << >>, mime |-> "", time |-> 0, paths |-> << >>,
            bytes |-> NoBytes]

NoAsset == [op |-> "init", type |-> "", refs |-> << >>, tags |-> << >>,
            reads |-> << >>, looks |-> << >>, panic |-> FALSE, out |-> << >>,
            key |-> << >>, status |-> 0, entry |-> NoEntry, watched |-> FALSE]

NoMemo == [type |-> "", refs |-> << >>, name |-> << >>, bytes |-> NoBytes]

\* newAssets: an empty cache
InitAssets ==
    /\ cache = << >>
    /\ clock = 1
    /\ edits = 0
    /\ issued = {}
    /\ memo = NoMemo
    /\ alast = NoAsset

\* newEngine, and no request served yet
InitEngine ==
    /\ layout \in {<< >>, <<"layout">>}
    /\ site = [f \in FileSet |->
                  IF "absent" \in Contents(f) THEN "absent"
                  ELSE CHOOSE c \in Contents(f) : c \in {"a", "y"}]
    /\ funcs = BaseFuncs
    /\ templates = Nil
    /\ resp = NoResp
    /\ last = NoOp
    /\ rmemo = NoRender

\* the goroutines net/http runs the handlers of two concurrent requests on
Goroutines == {"g1", "g2"}

\* a goroutine that serves no request
Idle == [pc |-> "idle", kind |-> "", type |-> "", key |-> << >>, paths |-> << >>,
         val |-> NoEntry, file |-> << >>, env |-> << >>, i |-> 0, err |-> FALSE,
         out |-> << >>, seen |-> << >>, bound |-> FALSE]

InitServer ==
    /\ prod \in BOOLEAN
    /\ alive = TRUE
    /\ procs = [g \in Goroutines |-> Idle]
    /\ InitEngine
    /\ InitAssets
    /\ tree = [f \in AssetFiles |-> IF f \in StartFiles THEN "v1" ELSE "absent"]

\* a server with a backend configured
Init == InitServer /\ hasBackend = TRUE

\* a developer edits, creates or removes a file of the site
EditFile(f, c) ==
    /\ alive
    /\ c \in Contents(f) /\ c # site[f]
    /\ site' = [site EXCEPT ![f] = c]
    /\ last' = [NoOp EXCEPT !.op = "edit"]
    /\ resp' = NoResp
    /\ rmemo' = NoRender
    /\ UNCHANGED <<prod, hasBackend, procs, layout, funcs, templates, alive, assetVars>>

\* engine.funcMap keeping the compiled registry
RegisterFunctions_keep(fs) ==
    /\ alive
    /\ funcs' = funcs \cup fs
    /\ templates' = templates
    /\ last' = [NoOp EXCEPT !.op = "funcs"]
    /\ resp' = NoResp
    /\ rmemo' = NoRender
    /\ UNCHANGED <<prod, hasBackend, procs, layout, site, alive, assetVars>>

\* Web.FuncMap / engine.funcMap
RegisterFunctions(fs) ==
    /\ alive
    /\ funcs' = funcs \cup fs
    /\ templates' = Nil
    /\ last' = [NoOp EXCEPT !.op = "funcs"]
    /\ resp' = NoResp
    /\ rmemo' = NoRender
    /\ UNCHANGED <<prod, hasBackend, procs, layout, site, alive, assetVars>>

\* the state after engine.execute returned ex to a caller of Web.Execute
\* watch: the call is the one rmemo remembers.
Rendered(ex, file, env, watch) ==
    /\ templates' = ex.templates
    /\ rmemo' = IF watch
                THEN [set |-> TRUE, path |-> file, env |-> env, err |-> ex.err,
                      out |-> ex.out]
                ELSE rmemo
    /\ alive' = ~ex.overflow
    /\ resp' = [NoResp EXCEPT !.body = ex.out,
                              !.status = IF ex.err THEN 404 ELSE 0]
    /\ last' = [NoOp EXCEPT !.op = "render", !.path = file,
                            !.hadTemplates = ~templates.nil,
                            !.compiled = ex.compiled, !.reads = ex.reads,
                            !.rendered = TRUE, !.env = env]

\* Web.Execute: engine.execute with the caller's environment
Render(file, env, watch) ==
    /\ alive
    /\ Rendered(execute(templates, funcs, site, prod, layout, file, env), file, env,
                watch)
    /\ UNCHANGED <<prod, hasBackend, procs, layout, site, funcs, assetVars>>

\* the state after handler `via` answered with r
Served(via, nc, r, method, path, res, writeErr) ==
    /\ templates' = r.templates
    /\ rmemo' = rmemo
    /\ alive' = ~r.exit
    /\ resp' = r.resp
    /\ last' = [op |-> "request", via |-> via, path |-> path,
                hadTemplates |-> ~templates.nil,
                compiled |-> r.compiled, reads |-> r.reads,
                rendered |-> r.rendered,
                backend |-> IF via = "proxy" THEN res ELSE NoBackend,
                tmplExists |-> via = "proxy" /\ ~skipFile(site, decorationFile(path)),
                nocache |-> nc,
                werr |-> writeErr /\ via \in {"engine", "proxy"},
                env |-> << >>, method |-> method]

\* the request is answered by the handler rt.via
Routed(rt, method, path, res, writeErr) ==
    Served(rt.via, rt.nocache,
           serve(rt.via, templates, funcs, site, prod, layout, path, res, writeErr),
           method, path, res, writeErr)

\* Web.ServeHTTP: one request through the stack
Request(method, path, res, writeErr) ==
    /\ alive
    /\ Routed(route(site, prod, hasBackend, method, path), method, path, res, writeErr)
    /\ UNCHANGED <<prod, hasBackend, procs, layout, site, funcs, assetVars>>

RenderFiles == { <<"index">>, <<"/", "index", ".html">>, <<"widget", ".tmpl">>,
                 <<"layout">>, <<"missing">> }

\* the files at the top of the site directory
FlatFiles == {f \in FileSet : \A i \in 1..Len(f) : f[i] # "/"}

RenderEnvs == { [k \in {"name"} |-> "x"] }

ExtraFuncs == { {"helper"} }

\* the backend answers 200 with an object, or cannot be reached
FewOutcomes == {o \in Outcomes :
                   \/ o.kind = "transport"
                   \/ o.kind = "response" /\ o.status = 200 /\ ~o.closeErr
                                           /\ IsObject(o.body)}

\* the template engine under edits, helper registration, renders and requests
Next ==
    \/ \E f \in FlatFiles, c \in {"absent", "a", "b", "bad", "y"} : EditFile(f, c)
    \/ \E fs \in ExtraFuncs : RegisterFunctions(fs)
    \/ \E file \in RenderFiles, env \in RenderEnvs : Render(file, env, FALSE)
    \/ \E m \in Methods, p \in ReqPaths, res \in FewOutcomes, w \in BOOLEAN :
           Request(m, p, res, w)

Spec == Init /\ [][Next]_vars

\* the proxy decorator under edits and requests, every backend outcome
NextProxy ==
    \/ \E f \in FlatFiles, c \in {"absent", "a", "b", "bad", "y"} : EditFile(f, c)
    \/ \E m \in Methods, p \in ReqPaths, res \in Outcomes, w \in BOOLEAN :
           Request(m, p, res, w)

SpecProxy == Init /\ [][NextProxy]_vars

\* two caller environments
TwoEnvs == { [k \in {"name"} |-> "x"], [k \in {"name"} |-> "z"] }

\* renders, with one earlier render remembered
NextRender ==
    \/ \E f \in FlatFiles, c \in {"absent", "a", "b", "bad", "y"} : EditFile(f, c)
    \/ \E fs \in ExtraFuncs : RegisterFunctions(fs)
    \/ \E file \in RenderFiles, env \in TwoEnvs, w \in BOOLEAN : Render(file, env, w)

SpecRender == Init /\ [][NextRender]_vars

RoutePaths == { <<"/">>, <<"/", "index">>, <<"/", "index", ".html">>,
                <<"/", "about", "/">>, <<"/", "note", ".txt">>,
                <<"/", "missing">>, <<"/", "widget">>, <<"/", "widget", ".tmpl">> }

\* the backend answers 200 with an object
OkOutcomes == {o \in FewOutcomes : o.kind = "response"}

\* route dispatch under edits of the whole site directory
NextRoute ==
    \/ \E f \in FileSet, c \in {"absent", "a", "b", "bad", "y"} : EditFile(f, c)
    \/ \E m \in Methods, p \in RoutePaths, res \in OkOutcomes :
           Request(m, p, res, FALSE)

\* a server with or without a backend
InitRoute == InitServer /\ hasBackend \in BOOLEAN

SpecRoute == InitRoute /\ [][NextRoute]_vars

----------------------------------------------------------------------------
(* The asset pipeline: the helpers of newAssets called by templates, the   *)
(* bundle route, and edits of the asset files                              *)

InlineTypes == {paste, tpl, md}

FileTypes == {css, js}

CombinedTypes == {css}

\* reference lists, already unpacked
InlineRefs == { << <<"a">> >>, << <<"d">>, <<"a">> >> }

CombinedRefs == { << >>, << <<"a">>, <<"b", "c">> >>, << <<"a", "b">>, <<"c">> >> }

LinkedRefs == { << <<"a">> >>, << <<"/", "d">>, <<"q">> >> }

ServeNames == {comboName(t, refs) : t \in CombinedTypes, refs \in CombinedRefs}
              \cup { <<"a">>, <<"q">> }

EditableFiles == { <<"a">> }

\* a developer changes an asset file
EditAsset(f, v) ==
    /\ alive
    /\ edits < MaxEdits
    /\ tree[f] # v
    /\ tree' = [tree EXCEPT ![f] = v]
    /\ edits' = edits + 1
    /\ clock' = clock + 1
    /\ memo' = NoMemo
    /\ alast' = [NoAsset EXCEPT !.op = "edit"]
    /\ UNCHANGED <<prod, hasBackend, procs, alive, engineVars, cache, issued>>

\* the state after assets.inlined returned r; a failed read is log.Fatalln
Inlined(t, refs, r, ioErr) ==
    /\ alive' = ~(ioErr /\ r.reads # << >>)
    /\ cache' = r.cache
    /\ alast' = [NoAsset EXCEPT !.op = "inline", !.type = t.name, !.refs = refs,
                                !.tags = inlineTags(t, r.items), !.reads = r.reads,
                                !.looks = r.looks]
    /\ UNCHANGED <<prod, hasBackend, procs, engineVars, tree, clock, edits, issued, memo>>

\* a template calls paste, tpl or md
InlineOp(t, refs, ioErr) ==
    /\ alive
    /\ Inlined(t, refs, inlined(t, tree, cache, prod, refs), ioErr)

\* assets.file going through the inline cache for each resolved file
LinkedOp_caching(t, refs) ==
    /\ alive
    /\ cache' = inlined(t, tree, cache, prod, refs).cache
    /\ alast' = [NoAsset EXCEPT !.op = "linked", !.type = t.name, !.refs = refs,
                                !.tags = assetsFile(t, tree, refs)]
    /\ UNCHANGED <<prod, hasBackend, procs, alive, engineVars, tree, clock, edits, issued, memo>>

\* the function assets.file(t) is called; newAssets binds css and js to it
LinkedOp(t, refs) ==
    /\ alive
    /\ alast' = [NoAsset EXCEPT !.op = "linked", !.type = t.name, !.refs = refs,
                                !.tags = assetsFile(t, tree, refs)]
    /\ UNCHANGED <<prod, hasBackend, procs, alive, engineVars, tree, cache, clock, edits, issued, memo>>

\* the state after assets.combined returned r; a failed read is log.Fatalln.
\* watch: the call is the one memo remembers.
Combined(t, refs, r, ioErr, watch) ==
    /\ alive' = ~(ioErr /\ r.reads # << >>)
    /\ cache' = r.cache
    /\ issued' = IF r.panic THEN issued ELSE issued \cup {r.entry.name}
    /\ memo' = IF watch
               THEN [type |-> t.name, refs |-> refs, name |-> r.entry.name,
                     bytes |-> r.entry.bytes]
               ELSE memo
    /\ alast' = [NoAsset EXCEPT !.op = "combined", !.type = t.name, !.refs = refs,
                                !.tags = r.tags, !.reads = r.reads,
                                !.looks = <<[key |-> r.key, hit |-> r.hit,
                                             entry |-> r.entry]>>,
                                !.panic = r.panic, !.key = r.key,
                                !.entry = r.entry, !.watched = watch]
    /\ UNCHANGED <<prod, hasBackend, procs, engineVars, tree, clock, edits>>

\* the function assets.combined(t) is called.  newAssets binds css and js to it
\* on a production server only; the function itself is taken in both modes.
CombinedOp(t, refs, ioErr, watch) ==
    /\ alive
    /\ Combined(t, refs, combined(t, tree, cache, prod, refs, clock), ioErr, watch)

\* assets.ServeHTTP: GET concatRoot + name
ServeOp(name) ==
    /\ alive
    /\ alast' = [NoAsset EXCEPT !.op = "serve", !.key = name,
                                !.status = IF name \in DOMAIN cache THEN 200 ELSE 404,
                                !.entry = IF name \in DOMAIN cache THEN cache[name]
                                          ELSE NoEntry]
    /\ UNCHANGED <<prod, hasBackend, procs, alive, engineVars, tree, cache, clock, edits, issued, memo>>

\* time passes
Tick ==
    /\ alive
    /\ clock < MaxClock
    /\ clock' = clock + 1
    /\ alast' = [NoAsset EXCEPT !.op = "tick"]
    /\ UNCHANGED <<prod, hasBackend, procs, alive, engineVars, tree, cache, edits, issued, memo>>

\* the asset pipeline of a server without a layout
InitAssetsOnly == Init /\ layout = << >>

NextAssets ==
    \/ \E f \in EditableFiles, v \in {"v1", "v2"} : EditAsset(f, v)
    \/ \E t \in InlineTypes, refs \in InlineRefs, e \in BOOLEAN : InlineOp(t, refs, e)
    \/ \E t \in FileTypes, refs \in LinkedRefs : LinkedOp(t, refs)
    \/ \E t \in CombinedTypes, refs \in CombinedRefs, e \in BOOLEAN :
           CombinedOp(t, refs, e, FALSE)
    \/ \E n \in ServeNames : ServeOp(n)

SpecAssets == InitAssetsOnly /\ [][NextAssets]_vars

BundleRefs == { << <<"a">>, <<"b", "c">> >>, << <<"a", "b">>, <<"c">> >>,
                << <<"d">> >> }

\* bundling, with one earlier call remembered
NextBundles ==
    \/ \E f \in EditableFiles, v \in {"v1", "v2"} : EditAsset(f, v)
    \/ Tick
    \/ \E refs \in InlineRefs : InlineOp(md, refs, FALSE)
    \/ \E t \in CombinedTypes, refs \in BundleRefs, w \in BOOLEAN :
           CombinedOp(t, refs, FALSE, w)

SpecBundles == InitAssetsOnly /\ [][NextBundles]_vars

----------------------------------------------------------------------------
(* Path resolution over every site directory *)

ResolveRefs == { << <<"d">> >>, << <<"/", "d">> >>, << <<"d", "/">> >>,
                 << <<"/">> >>, << <<"a">>, <<"d", "/", "e">> >>,
                 << <<"d", "/", "_", "y">> >>, << <<"d", "/", ".", ".", "n">> >>,
                 << <<"_", "p">> >>, << <<"q">> >> }

InitResolve ==
    /\ prod = FALSE
    /\ procs = [g \in Goroutines |-> Idle]
    /\ hasBackend = TRUE
    /\ alive = TRUE
    /\ InitEngine /\ layout = << >>
    /\ InitAssets
    /\ tree \in [AssetFiles -> {"absent", "v1"}]

\* assets.resolvePaths
ResolveOp(refs) ==
    /\ alive
    /\ alast' = [NoAsset EXCEPT !.op = "resolve", !.refs = refs,
                                !.out = resolvePaths(tree, refs)]
    /\ UNCHANGED <<prod, hasBackend, procs, alive, engineVars, tree, cache, clock, edits, issued, memo>>

NextResolve == \E refs \in ResolveRefs : ResolveOp(refs)

SpecResolve == InitResolve /\ [][NextResolve]_vars

----------------------------------------------------------------------------
(* Properties of the template engine *)

Range(s) == {s[i] : i \in 1..Len(s)}

\* is file f of directory dir a template source
IsTemplateSource(dir, f) ==
    dir[f] # "absent" /\ Ext(f) \in {frontendExt, backendExt}

\* every template source of dir, in walk order
TemplateSources(dir) == SelectSeq(SiteFiles, LAMBDA f : IsTemplateSource(dir, f))

\* the template sources of dir up to and including the first one that does
\* not parse, in walk order: all of them when every one parses
SourcesToFirstBad(dir) ==
    SelectSeq(SiteFiles,
              LAMBDA f : /\ IsTemplateSource(dir, f)
                         /\ \A i \in 1..Len(SiteFiles) :
                                (IsTemplateSource(dir, SiteFiles[i]) /\ dir[SiteFiles[i]] = "bad")
                                => \E j \in 1..i : SiteFiles[j] = f)

\* C1 as stated: a production render on a built registry compiles nothing
\* and reads no source; a development render recompiles and re-reads every
\* template source.
C1_RecompileEverySource ==
    last.rendered =>
        /\ (prod /\ last.hadTemplates) => (~last.compiled /\ last.reads = << >>)
        /\ ~prod => (last.compiled /\ last.reads = TemplateSources(site))

\* one step of the recompile policy: a render on a built production registry
\* leaves the registry alone; any other render compiles from an empty
\* registry, reading the sources in walk order and stopping after the first
\* that does not parse; only RegisterFunctions discards a built registry
RecompileStep ==
    /\ (last'.rendered /\ prod /\ ~templates.nil) =>
           /\ ~last'.compiled
           /\ last'.reads = << >>
           /\ templates'.set = templates.set
    /\ (last'.rendered /\ (~prod \/ templates.nil)) =>
           /\ last'.compiled
           /\ last'.reads = SourcesToFirstBad(site)
           /\ DOMAIN templates'.set = {templateName(f) : f \in Range(last'.reads)}
    /\ (~templates.nil /\ templates'.nil) => last'.op = "funcs"

\* C1, amended: in production mode, after the first compile, renders with no
\* RegisterFunctions in between perform no further compile and read no
\* template source; in development mode every render is preceded by a
\* recompile from an empty registry that re-reads the template sources in
\* walk order, every one of them unless one fails to parse, and then those
\* up to and including the first that fails.
C1_RecompilePolicy == [][RecompileStep]_vars

\* a production render served from a registry that no longer matches the disk
C1_Witness ==
    /\ prod /\ last.op = "render" /\ last.hadTemplates /\ ~last.compiled
    /\ <<"index">> \in DOMAIN templates.set
    /\ templates.set[<<"index">>] # site[<<"index", ".html">>]

----------------------------------------------------------------------------
(* Concurrent requests on the asset cache.  assets.cache is a Go map used   *)
(* without a lock: each map access of combosFromPaths and inlinedFromPath   *)
(* is a step of its own, and a map write takes time.                        *)

\* what is left of a map entry written by two goroutines at once
Torn == [NoEntry EXCEPT !.mime = "torn"]

\* another goroutine is inside a map write
Raced(g) == \E h \in Goroutines \ {g} : procs[h].pc = "storing"

\* a template of a request on goroutine g calls an asset helper: Inline of the
\* one path, or Combined of the paths
GoAsset(g, kind, t, paths) ==
    /\ alive /\ procs[g].pc = "idle"
    /\ procs' = [procs EXCEPT ![g] =
                    [Idle EXCEPT !.pc = "lookup", !.kind = kind, !.type = t.name,
                                 !.paths = paths,
                                 !.key = IF kind = "inline" THEN paths[1]
                                         ELSE comboName(t, paths)]]
    /\ UNCHANGED <<prod, hasBackend, alive, engineVars, assetVars>>

\* cached, ok := a.cache[name]; if ok && a.prod { return cached }
GoLookup(g) ==
    /\ alive /\ procs[g].pc = "lookup"
    /\ procs' = [procs EXCEPT ![g] =
                    IF procs[g].key \in DOMAIN cache /\ prod
                    THEN [procs[g] EXCEPT !.pc = "done", !.val = cache[procs[g].key]]
                    ELSE [procs[g] EXCEPT !.pc = "read"]]
    /\ UNCHANGED <<prod, hasBackend, alive, engineVars, assetVars>>

\* b := a.bytesFromPaths(paths), t.proc(b), and the new assetCache value
GoRead(g) ==
    /\ alive /\ procs[g].pc = "read"
    /\ procs' = [procs EXCEPT ![g] =
                    [procs[g] EXCEPT
                        !.pc = "store",
                        !.val = IF procs[g].kind = "inline"
                                THEN inlineEntry(TypeOf(procs[g].type), procs[g].key,
                                                 bytesFromPaths(tree, procs[g].paths))
                                ELSE comboEntry(TypeOf(procs[g].type), procs[g].paths,
                                                procs[g].key,
                                                bytesFromPaths(tree, procs[g].paths),
                                                clock)]]
    /\ UNCHANGED <<prod, hasBackend, alive, engineVars, assetVars>>

\* a.cache[name] = ... : the map write starts
GoStoreBegin(g) ==
    /\ alive /\ procs[g].pc = "store"
    /\ procs' = [procs EXCEPT ![g] = [procs[g] EXCEPT !.pc = "storing"]]
    /\ UNCHANGED <<prod, hasBackend, alive, engineVars, assetVars>>

\* a.cache[name] = ... : the map write is done
GoStoreEnd(g) ==
    /\ alive /\ procs[g].pc = "storing"
    /\ cache' = Store(cache, procs[g].key, procs[g].val)
    /\ procs' = [procs EXCEPT ![g] = [procs[g] EXCEPT !.pc = "fetch"]]
    /\ UNCHANGED <<prod, hasBackend, alive, engineVars, tree, clock, edits, issued,
                   memo, alast>>

\* return a.cache[name]
GoFetch(g) ==
    /\ alive /\ procs[g].pc = "fetch"
    /\ procs' = [procs EXCEPT ![g] =
                    [procs[g] EXCEPT !.pc = "done", !.val = cache[procs[g].key]]]
    /\ UNCHANGED <<prod, hasBackend, alive, engineVars, assetVars>>

\* a map access of g while another goroutine is inside a map write is a data
\* race: the runtime stops the process ("concurrent map writes", "concurrent
\* map read and map write") or, where its check misses the overlap, the entry
\* being written is left undefined.  The access going through unharmed is the
\* step GoLookup, GoStoreBegin or GoFetch itself.
GoRace(g, outcome) ==
    /\ alive /\ procs[g].pc \in {"lookup", "store", "fetch"} /\ Raced(g)
    /\ alive' = (outcome # "fatal")
    /\ cache' = IF outcome = "torn"
                THEN Store(cache, procs[CHOOSE h \in Goroutines \ {g} :
                                            procs[h].pc = "storing"].key, Torn)
                ELSE cache
    /\ UNCHANGED <<prod, hasBackend, procs, engineVars, tree, clock, edits, issued,
                   memo, alast>>

\* the request of goroutine g is answered
GoDone(g) ==
    /\ alive /\ procs[g].pc = "done"
    /\ procs' = [procs EXCEPT ![g] = Idle]
    /\ UNCHANGED <<prod, hasBackend, alive, engineVars, assetVars>>

\* two requests whose templates inline or bundle the file a, and an edit of it
NextRace ==
    \/ \E f \in EditableFiles, v \in {"v1", "v2"} : EditAsset(f, v)
    \/ \E g \in Goroutines, t \in {paste, md} : GoAsset(g, "inline", t, << <<"a">> >>)
    \/ \E g \in Goroutines : GoAsset(g, "combined", css, << <<"a">> >>)
    \/ \E g \in Goroutines : GoLookup(g)
    \/ \E g \in Goroutines : GoRead(g)
    \/ \E g \in Goroutines : GoStoreBegin(g)
    \/ \E g \in Goroutines : GoStoreEnd(g)
    \/ \E g \in Goroutines : GoFetch(g)
    \/ \E g \in Goroutines, o \in {"fatal", "torn"} : GoRace(g, o)
    \/ \E g \in Goroutines : GoDone(g)

SpecRace == InitAssetsOnly /\ [][NextRace]_vars

----------------------------------------------------------------------------
(* Concurrent requests on the engine.  engine.templates and the function    *)
(* table of the set are shared by all requests and used without a lock:     *)
(* each line of engine.execute that reads or writes them is a step.         *)

\* a request on goroutine g reaches engine.execute(file, env)
GoRender(g, file, env) ==
    /\ alive /\ procs[g].pc = "idle"
    /\ procs' = [procs EXCEPT ![g] =
                    [Idle EXCEPT !.pc = "check", !.kind = "render", !.file = file,
                                 !.env = env]]
    /\ UNCHANGED <<prod, hasBackend, alive, engineVars, assetVars>>

\* engine.execute line 64: if e.templates == nil || !e.config.prod()
GoCheck(g) ==
    /\ alive /\ procs[g].pc = "check"
    /\ procs' = [procs EXCEPT ![g] =
                    [procs[g] EXCEPT !.pc = IF templates.nil \/ ~prod THEN "new"
                                            ELSE "bind"]]
    /\ UNCHANGED <<prod, hasBackend, alive, engineVars, assetVars>>

\* engine.compileTemplates line 155: e.templates = template.New(...)
GoNew(g) ==
    /\ alive /\ procs[g].pc = "new"
    /\ templates' = Registry([set |-> << >>, funcs |-> funcs])
    /\ procs' = [procs EXCEPT ![g] = [procs[g] EXCEPT !.pc = "walk", !.i = 1]]
    /\ UNCHANGED <<prod, hasBackend, alive, layout, site, funcs, resp, last, rmemo,
                   assetVars>>

\* the set after the walk callback of g compiled its file i into e.templates
GoCompiled(g, c) ==
    /\ templates' = [templates EXCEPT !.set = c.set]
    /\ procs' = [procs EXCEPT ![g] =
                    IF c.err THEN [procs[g] EXCEPT !.pc = "done", !.err = TRUE,
                                                   !.seen = c.set]
                    ELSE [procs[g] EXCEPT !.i = procs[g].i + 1]]

\* one call of the walk callback of engine.compileTemplates, lines 157-165,
\* with engine.compileTemplate on the e.templates of this moment
GoWalk(g) ==
    /\ alive /\ procs[g].pc = "walk"
    /\ IF procs[g].i > Len(SiteFiles)
       THEN /\ procs' = [procs EXCEPT ![g] = [procs[g] EXCEPT !.pc = "bind"]]
            /\ templates' = templates
       ELSE IF site[SiteFiles[procs[g].i]] = "absent"
               \/ Ext(SiteFiles[procs[g].i]) \notin {frontendExt, backendExt}
       THEN /\ procs' = [procs EXCEPT ![g] = [procs[g] EXCEPT !.i = procs[g].i + 1]]
            /\ templates' = templates
       ELSE GoCompiled(g, compileTemplate(
                [set |-> templates.set, reads |-> << >>, err |-> FALSE,
                 funcs |-> templates.funcs],
                SiteFiles[procs[g].i], templateName(SiteFiles[procs[g].i]),
                site[SiteFiles[procs[g].i]]))
    /\ UNCHANGED <<prod, hasBackend, alive, layout, site, funcs, resp, last, rmemo,
                   assetVars>>

\* engine.execute lines 70-73: funcMapLayout on the e.templates of this moment
GoBind(g) ==
    /\ alive /\ procs[g].pc = "bind"
    /\ templates' = IF layout # << >>
                    THEN funcMapLayout(templates, templateName(procs[g].file),
                                       procs[g].env)
                    ELSE templates
    /\ procs' = [procs EXCEPT ![g] =
                    [procs[g] EXCEPT !.pc = "exec",
                                     !.bound = layout # << >> /\
                                         templateName(procs[g].file) \in
                                             DOMAIN templates.set]]
    /\ UNCHANGED <<prod, hasBackend, alive, layout, site, funcs, resp, last, rmemo,
                   assetVars>>

\* the state after e.templates.ExecuteTemplate returned r to goroutine g
GoExecuted(g, r) ==
    /\ alive' = ~r.overflow
    /\ procs' = [procs EXCEPT ![g] =
                    [procs[g] EXCEPT !.pc = "done", !.err = r.err, !.out = r.out,
                                     !.seen = templates.set]]

\* engine.execute line 75: engine.template on the e.templates of this moment,
\* yield being whatever the function table holds
GoExec(g) ==
    /\ alive /\ procs[g].pc = "exec"
    /\ GoExecuted(g, template(templates,
                              IF layout # << >> THEN layout ELSE procs[g].file,
                              procs[g].env))
    /\ UNCHANGED <<prod, hasBackend, engineVars, assetVars>>

\* the pages two concurrent requests render
GoPages == { <<"index">>, <<"widget">> }

\* two requests rendering pages, and the widget page being created
NextConc ==
    \/ EditFile(<<"widget", ".tmpl">>, "a")
    \/ \E g \in Goroutines, file \in GoPages, env \in TwoEnvs : GoRender(g, file, env)
    \/ \E g \in Goroutines : GoCheck(g)
    \/ \E g \in Goroutines : GoNew(g)
    \/ \E g \in Goroutines : GoWalk(g)
    \/ \E g \in Goroutines : GoBind(g)
    \/ \E g \in Goroutines : GoExec(g)
    \/ \E g \in Goroutines : GoDone(g)

SpecConc == Init /\ [][NextConc]_vars

----------------------------------------------------------------------------
(* Properties of the asset cache *)

AssetTypes == {paste, tpl, md, css, js}

TypeNamed(n) == CHOOSE t \in AssetTypes : t.name = n

\* the payload of type t read from the files that refs resolve to on disk tr
FreshBytes(t, tr, refs) ==
    process(t, [proc |-> "none", chunks |-> readAll(tr, resolvePaths(tr, refs))])

\* the files a call reads when it takes nothing from the cache
FilesRead(tr, refs) == filesOf(readAll(tr, resolvePaths(tr, refs)))

\* the references behind lookup lk of an asset call a
LookupRefs(a, lk) == IF a.op = "inline" THEN <<lk.key>> ELSE a.refs

\* lookup lk of call a, made on cache c and leaving cache d, followed the
\* cache policy
LookupStep(a, lk, c, d, tr, isProd) ==
    /\ (isProd /\ lk.key \in DOMAIN c) =>
           (lk.hit /\ lk.entry = c[lk.key] /\ d[lk.key] = c[lk.key])
    /\ ~isProd =>
           /\ ~lk.hit
           /\ lk.entry.bytes = FreshBytes(TypeNamed(a.type), tr, LookupRefs(a, lk))
           /\ d[lk.key] = lk.entry

CacheStep ==
    alast'.op \in {"inline", "combined"} =>
        /\ \A i \in 1..Len(alast'.looks) :
               LookupStep(alast', alast'.looks[i], cache, cache', tree, prod)
        /\ (prod /\ \A i \in 1..Len(alast'.looks) : alast'.looks[i].key \in DOMAIN cache)
               => (alast'.reads = << >> /\ cache' = cache)
        /\ (~prod /\ ~alast'.panic) =>
               alast'.reads = FilesRead(tree, alast'.refs)

\* C2: in production mode a lookup of a key already in the asset cache
\* returns the cached entry unchanged without reading disk; in development
\* mode every lookup re-reads disk and replaces the entry.
C2_CachePolicy == [][CacheStep]_vars

\* a production lookup answered from the cache after the file changed on disk
C2_Witness ==
    /\ prod /\ alast.op = "inline" /\ Len(alast.looks) = 1
    /\ alast.looks[1].hit
    /\ alast.looks[1].entry.bytes # FreshBytes(TypeNamed(alast.type), tree, alast.refs)

----------------------------------------------------------------------------
(* Properties of the proxy decorator *)

\* the proxy handled the last request and the backend answered
Decorating ==
    last.op = "request" /\ last.via = "proxy" /\ last.backend.kind = "response"

\* C3: when the decoration template exists and the backend body is a JSON
\* object, the client receives exactly the backend's status code with the
\* HTML content type.
C3_StatusPropagated ==
    (Decorating /\ last.tmplExists /\ IsObject(last.backend.body)) =>
        (resp.status = last.backend.status /\ resp.ctype = HTML)

\* C4: when the decoration template does not exist, the client (one that
\* takes the response) receives the backend's status code and the backend
\* body pretty-printed with a 2-space indent, and the engine is not invoked.
C4_Fallback ==
    (Decorating /\ ~last.tmplExists /\ ~last.werr) =>
        /\ resp.status = last.backend.status
        /\ ValidJSON(last.backend.body) => resp.body = jsonIndent(last.backend.body)
        /\ ~last.rendered

\* C5: when the decoration template exists and the backend body is not a
\* JSON object, the request ends in a 404 and the server keeps serving.
C5_MalformedIs404 ==
    (Decorating /\ last.tmplExists /\ ~IsObject(last.backend.body)) =>
        (resp.status = 404 /\ alive)

\* C6: the process terminates only through a backend transport failure in
\* the proxy; after any other failure it is still running.
C6_ProcessSurvives ==
    ~alive => (last.op = "request" /\ last.via = "proxy"
               /\ last.backend.kind = "transport")

----------------------------------------------------------------------------
(* Properties of path resolution *)

\* a segment of path p starts at position i
SegmentAt(p, i) == p[i] # "/" /\ (i = 1 \/ p[i - 1] = "/")

\* position i is the last of its segment
SegmentEnds(p, i) == i = Len(p) \/ p[i + 1] = "/"

\* the segment of p starting at i is exactly "." or ".."
DotOrDotDot(p, i) ==
    /\ p[i] = "."
    /\ \/ SegmentEnds(p, i)
       \/ p[i + 1] = "." /\ SegmentEnds(p, i + 1)

\* the segment of p starting at i begins with "_", or with "." without
\* being "." or ".."
IgnoredSegment(p, i) ==
    \/ p[i] = "_"
    \/ p[i] \in DotTokens /\ ~DotOrDotDot(p, i)

HasIgnoredSegment(p) ==
    \E i \in 1..Len(p) : SegmentAt(p, i) /\ IgnoredSegment(p, i)

\* C7: no path returned by Resolve has a segment that begins with "_", or
\* that begins with "." and is not exactly "." or "..".
C7_ResolveNeverIgnored ==
    alast.op = "resolve" =>
        \A i \in 1..Len(alast.out) : ~HasIgnoredSegment(alast.out[i])

----------------------------------------------------------------------------
(* Properties of bundles *)

\* the last call was Combined on the type and references that memo remembers
\* from an earlier call, and no file changed in between
Repeated ==
    /\ alast.op = "combined" /\ ~alast.panic
    /\ memo.type = alast.type /\ memo.refs = alast.refs

\* C8: two Combined calls with the same type and the same ordered reference
\* list, with no file changed between them, yield the same bundle name and
\* the same payload, in production and in development mode.
C8_CombinedDeterministic ==
    Repeated => (alast.entry.name = memo.name /\ alast.entry.bytes = memo.bytes)

\* a development-mode repeat of a remembered call, at a later time
C8_Witness ==
    /\ Repeated /\ ~alast.watched /\ ~prod
    /\ alast.entry.time > 1 /\ edits = 0

\* C9: in production mode with no file changed, whatever Combined calls came
\* before, the bundle entry behind the fragment of Combined(type, refs) holds
\* the in-order concatenation of exactly the files resolved from refs,
\* post-processed once; so calls whose resolved lists differ share no entry.
C9_BundlePayload ==
    (prod /\ edits = 0 /\ alast.op = "combined" /\ ~alast.panic) =>
        /\ alast.key \in DOMAIN cache
        /\ cache[alast.key].bytes = FreshBytes(TypeNamed(alast.type), tree, alast.refs)

\* C10: every bundle name a Combined call has handed out stays in the cache,
\* and Serve of such a name answers 200 with the payload, mime type and
\* timestamp the cache holds for it.
C10_ServeRoundTrip ==
    /\ \A n \in issued : n \in DOMAIN cache
    /\ (alast.op = "serve" /\ alast.key \in issued) =>
           /\ alast.status = 200
           /\ alast.entry = cache[alast.key]
           /\ alast.entry.name = alast.key

\* an issued bundle served after a file it was built from changed
C10_Witness ==
    /\ alast.op = "serve" /\ alast.key \in issued /\ alast.status = 200
    /\ edits > 0
    /\ alast.entry.bytes.chunks # << >>

\* n has the form of a bundle name, hash(...) followed by an extension
IsHashName(n) == HasPrefix(n, <<"#">>)

\* C11: Serve of a name that is not the hash name of a bundle produced by
\* Combined answers 404; the per-file entries of Inline are never streamed.
C11_ServeOnlyBundles ==
    (alast.op = "serve" /\ alast.key \notin issued /\ ~IsHashName(alast.key)) =>
        alast.status = 404

----------------------------------------------------------------------------
(* Properties of layouts *)

\* rendering `page` with env on a server that has no layout configured: the
\* yield helper is tmpl.Yield
PageAlone(reg, page, env) ==
    executeTemplate([reg EXCEPT !.yield = DefaultYield], templateName(page), env,
                    MaxDepth)

\* the last operation was Render on a server whose layout template calls yield
LayoutRender ==
    /\ last.op = "render" /\ layout # << >>
    /\ layout \in DOMAIN templates.set /\ templates.set[layout] = "y"

\* the output of a render that executed the layout around the yield output out
Wrapped(env, out) == <<layout, "y", env, out>>

\* the page of the last render is a template other than the layout that
\* renders alone
PageRenders ==
    /\ templateName(last.path) # layout
    /\ ~PageAlone(templates, last.path, last.env).err

----------------------------------------------------------------------------
(* Properties of route dispatch *)

\* the logical template a request path stands for: index of the directory
\* for a path ending in "/"
TemplateFor(p) ==
    IF HasSuffix(p, <<"/">>) THEN TrimPrefix(p \o <<"index">>, <<"/">>)
    ELSE TrimPrefix(TrimSuffix(p, Ext(p)), <<"/">>)

\* the file on disk a request path resolves to
ResolvedFile(p) ==
    IF HasSuffix(p, <<"/">>) THEN TrimPrefix(p, <<"/">>) \o <<"index">> \o frontendExt
    ELSE IF Ext(p) = << >> THEN TrimPrefix(p, <<"/">>) \o frontendExt
    ELSE TrimPrefix(p, <<"/">>)

\* the request carries an extension other than the front-end one, or its
\* resolved file is not on disk
Skipped(dir, p) ==
    \/ ~HasSuffix(p, <<"/">>) /\ Ext(p) # << >> /\ Ext(p) # frontendExt
    \/ ResolvedFile(p) \notin DOMAIN dir
    \/ dir[ResolvedFile(p)] = "absent"

\* the last request passed the ignore filter and reached the engine handler
Dispatched == last.op = "request" /\ last.via # "ignore"

\* what the engine writes when it renders logical template name
EngineBody(reg, name, env) ==
    IF layout = << >> THEN PageAlone(reg, name, env).out
    ELSE Wrapped(env, PageAlone(reg, name, env).out)

\* the engine answered the last request, with the template the path stands
\* for when the registry holds it
RenderedByEngine ==
    /\ last.via = "engine" /\ last.rendered
    /\ (resp.status = 200 /\ TemplateFor(last.path) \in DOMAIN templates.set) =>
           resp.body = EngineBody(templates, TemplateFor(last.path), createEnv(prod, << >>))

\* the engine handler passed the last request on and wrote nothing
Delegated ==
    /\ last.via \in {"static", "proxy", "notfound"}
    /\ last.via = "static" => (~last.rendered /\ ~last.compiled)

\* C13 as stated: a request is delegated when it is skipped, and every other
\* request is rendered by the engine.
C13_EveryOtherRendered ==
    Dispatched =>
        IF Skipped(site, last.path) THEN Delegated ELSE RenderedByEngine

\* C13, amended: a request path ending in "/" is mapped to the index
\* template of that directory; a request that is not a GET, or whose
\* extension is neither empty nor the front-end extension, or whose resolved
\* file (the path plus the front-end extension when it has none) is not on
\* disk, is delegated and the engine writes nothing; every other request is
\* rendered by the engine.
C13_PathMapping ==
    Dispatched =>
        IF last.method # "GET" \/ Skipped(site, last.path)
        THEN Delegated ELSE RenderedByEngine

\* GET /about/ rendered as the template about/index
C13_Witness ==
    /\ Dispatched /\ last.path = <<"/", "about", "/">> /\ last.via = "engine"
    /\ resp.status = 200 /\ layout = << >>
    /\ resp.body = << <<"about", "/", "index">>, "a", createEnv(prod, << >>) >>

----------------------------------------------------------------------------
(* Properties of the engine's responses *)

\* the engine handler answered the last request
EngineAnswered == last.op = "request" /\ last.via = "engine" /\ alive

\* the compile of the last request met a source that does not parse
CompileFailed == last.compiled /\ \E f \in Range(last.reads) : site[f] = "bad"

\* the template the engine executes for the last request
Target == IF layout # << >> THEN layout ELSE TemplateFor(last.path)

\* executing Target on the registry returns an error
RenderFailed == Target \notin DOMAIN templates.set \/ templates.set[Target] = "bad"

\* C14: a request rendered by the engine gets 200 with the HTML content type
\* when compile and render succeed, 404 when either returns an error, with
\* nothing written before; a 500 is attempted only when writing the rendered
\* bytes fails after the 200 header went out; the engine produces no other
\* status.
C14_EngineStatus ==
    EngineAnswered =>
        IF CompileFailed \/ RenderFailed
        THEN resp = http404
        ELSE /\ resp.status = 200 /\ resp.ctype = HTML
             /\ resp.late = IF last.werr THEN 500 ELSE 0
             /\ last.werr \/ resp.body # << >>

\* a rendered page whose bytes could not be written: 200 went out, 500 after it
C14_Witness ==
    /\ EngineAnswered /\ resp.status = 200 /\ resp.late = 500
    /\ last.compiled

----------------------------------------------------------------------------
(* Properties of the handler order *)

\* the engine takes the last request
EngineTakes == last.method = "GET" /\ ~Skipped(site, last.path)

\* the static file server takes the last request: a GET of a file on disk
StaticTakes ==
    /\ last.method = "GET"
    /\ \/ HasSuffix(last.path, <<"/">>) /\ ~Skipped(site, last.path)
       \/ /\ ~HasSuffix(last.path, <<"/">>)
          /\ TrimPrefix(last.path, <<"/">>) \in DOMAIN site
          /\ site[TrimPrefix(last.path, <<"/">>)] # "absent"

\* the handler that answers when engine, static, proxy and terminal 404 are
\* asked in this order
FirstTaker ==
    IF EngineTakes THEN "engine"
    ELSE IF StaticTakes THEN "static"
    ELSE IF hasBackend THEN "proxy"
    ELSE "notfound"

\* C15: after route dispatch the request is answered by the first of engine,
\* static file server, proxy, terminal 404 that takes it; in production the
\* no-cache injector sits before the proxy, so engine and static responses
\* never carry the no-cache headers and proxied and terminal-404 responses
\* always do; in development it sits first and every response carries them.
C15_PipelineOrder ==
    Dispatched =>
        /\ last.via = FirstTaker
        /\ last.nocache = (~prod \/ last.via \in {"proxy", "notfound"})

\* a production terminal 404 carrying the no-cache headers
C15_Witness ==
    /\ Dispatched /\ prod /\ last.via = "notfound"
    /\ resp.status = 404 /\ last.nocache

----------------------------------------------------------------------------
(* Properties of repeated renders *)

\* the last operation was Render of the name and environment that rmemo
\* remembers from an earlier call, with no edit and no RegisterFunctions since
RenderedAgain ==
    /\ last.op = "render" /\ rmemo.set
    /\ rmemo.path = last.path /\ rmemo.env = last.env

\* C16: in production mode, two renders of the same template name with the
\* same environment, with no RegisterFunctions and no other change of state
\* between them, renders of other templates aside, produce the same output.
C16_RenderIdempotent ==
    (prod /\ RenderedAgain /\ alive) =>
        (resp.body = rmemo.out /\ (resp.status = 404) = rmemo.err)

----------------------------------------------------------------------------
(* Properties of helper registration *)

\* one step of helper registration: RegisterFunctions merges the helpers and
\* leaves no registry; a render that finds no registry compiles a new one
\* from the site directory, in either mode; a registry is always bound to
\* the helper set of the engine
RegisterStep ==
    /\ last'.op = "funcs" => (templates'.nil /\ funcs \subseteq funcs')
    /\ (last'.rendered /\ templates.nil) =>
           /\ last'.compiled
           /\ last'.reads = SourcesToFirstBad(site)
           /\ ~templates'.nil
    /\ ~templates'.nil => templates'.funcs = funcs'

\* C17: after any RegisterFunctions call the compiled registry is absent, so
\* the next render recompiles from the site directory in production as well
\* as in development, and every template of the new registry, layouts
\* included, is bound to the merged helper set.
C17_RegisterInvalidates == [][RegisterStep]_vars

\* a production registry, layout included, compiled with a registered helper
C17_Witness ==
    /\ prod /\ last.op = "render" /\ last.compiled
    /\ layout # << >> /\ layout \in DOMAIN templates.set
    /\ "helper" \in templates.funcs

----------------------------------------------------------------------------
(* Properties of a failed compile *)

\* the step is a render or an engine-answered request whose compile met a
\* source that does not parse
FailedCompile ==
    /\ last'.compiled
    /\ last'.op = "render" \/ last'.via = "engine"
    /\ \E f \in Range(last'.reads) : site[f] = "bad"

\* a failed compile answers 404 and leaves the registry as it was
FailedCompileStep ==
    FailedCompile => (resp'.status = 404 /\ templates' = templates)

\* C18: when a compile fails on a malformed template, the triggering request
\* gets a 404 and the registry is the same as before the failed compile
\* (absent if it was the first compile), so no later render executes against
\* a partially built registry and, in production, a later render still
\* triggers the compile that has not yet succeeded.
C18_FailedCompileKeepsRegistry == [][FailedCompileStep]_vars

----------------------------------------------------------------------------
(* Properties of a render of a missing template *)

\* the last operation was Web.Execute of a name the registry does not hold
MissingRendered ==
    /\ last.op = "render" /\ alive
    /\ templateName(last.path) \notin DOMAIN templates.set

\* C19: a render of a logical name that has no template in the registry
\* returns an error, whether or not a layout is configured; it never returns
\* a layout rendering whose yield output is empty or is the content of a page
\* rendered earlier.
C19_MissingIsNotFound == MissingRendered => resp.status = 404

----------------------------------------------------------------------------
(* Properties of inline fragments *)

\* the payload b before any processor was applied
Unprocessed(b) == [b EXCEPT !.proc = "none"]

\* tag is the fragment of type t for the resolved file f: the url slot names
\* f, the content slot is t's processor applied to bytes of f (the raw bytes
\* when t has none), and to the bytes on disk tr when fresh is set
FragmentOf(t, f, tag, tr, fresh) ==
    /\ tag.html = t.name
    /\ tag.url = f
    /\ tag.content = process(t, Unprocessed(tag.content))
    /\ \A i \in 1..Len(tag.content.chunks) :
           tag.content.chunks[i].file = TrimPrefix(f, <<"/">>)
    /\ fresh => tag.content = process(t, [proc |-> "none", chunks |-> readAll(tr, <<f>>)])

\* tags are the fragments of type t for files, one each, in order
FragmentsOf(t, files, tags, tr, fresh) ==
    /\ Len(tags) = Len(files)
    /\ \A i \in 1..Len(files) : FragmentOf(t, files[i], tags[i], tr, fresh)

\* C20: Inline(type, refs) returns exactly one fragment per file resolved
\* from refs, in resolution order, and the content slot of each fragment is
\* the type's post-processor applied to the file's bytes (the raw bytes when
\* the type has no processor); in production this holds after any earlier
\* Inline calls of any asset type on the same file.  The bytes are those on
\* disk in development mode and while no file was edited.
C20_InlineFragments ==
    (alast.op = "inline" /\ alive) =>
        FragmentsOf(TypeNamed(alast.type), resolvePaths(tree, alast.refs),
                    alast.tags, tree, ~prod \/ edits = 0)

----------------------------------------------------------------------------
(* Properties of linked fragments *)

\* tags are the link fragments of type t for files: one each, in order, the
\* url slot filled and the content slot empty
LinksOf(t, files, tags) ==
    /\ Len(tags) = Len(files)
    /\ \A i \in 1..Len(files) : tags[i] = Sprintf(t, files[i], NoBytes)

\* one call of Linked: the fragments, no bytes read, the cache as it was
LinkedStep ==
    alast'.op = "linked" =>
        /\ LinksOf(TypeNamed(alast'.type), resolvePaths(tree, alast'.refs), alast'.tags)
        /\ alast'.reads = << >>
        /\ cache' = cache
        /\ alive' = alive

\* C21: Linked(type, refs) returns exactly one fragment per resolved file
\* with an empty content slot, reads no file bytes, and leaves the asset
\* cache exactly as it was before the call.
C21_LinkedNoEffect == [][LinkedStep]_vars

\* a Linked call that returned fragments on a server whose cache holds entries
C21_Witness ==
    /\ alast.op = "linked" /\ Len(alast.tags) > 0
    /\ cache # << >>
    /\ \E f \in Range(resolvePaths(tree, alast.refs)) : f \notin DOMAIN cache

----------------------------------------------------------------------------
(* Properties of the bundle fragment *)

\* the last operation was a Combined call the process survived
CombinedReturned == alast.op = "combined" /\ alive

\* the reference list of the last call starts with a site-root-relative one
RootRelative == alast.refs # << >> /\ HasPrefix(alast.refs[1], <<"/">>)

\* C22: Combined emits exactly one fragment for every reference list,
\* including an empty list and a list whose references all resolve to
\* nothing; it never fails or aborts the render, and the fragment's URL is
\* site-root-prefixed exactly when the first reference begins with "/".
C22_CombinedOneFragment ==
    CombinedReturned =>
        /\ ~alast.panic
        /\ Len(alast.tags) = 1
        /\ HasPrefix(alast.tags[1].url, <<"/">>) <=> RootRelative

----------------------------------------------------------------------------
(* Properties of concurrent requests on the asset cache *)

\* every goroutine has returned from a helper call on the key of g
AllReturned(g) ==
    \A h \in Goroutines : procs[h].pc = "done" /\ procs[h].key = procs[g].key

\* C23: when several requests concurrently run Combined or Inline for the
\* same uncached key, the process does not fail, the map is never corrupted,
\* and the cache ends with one entry for that key, equal to the result of one
\* of those computations.
C23_ConcurrentCacheSafe ==
    /\ alive
    /\ \A k \in DOMAIN cache : cache[k] # Torn
    /\ \A g \in Goroutines :
           AllReturned(g) =>
               /\ procs[g].key \in DOMAIN cache
               /\ \E h \in Goroutines : cache[procs[g].key] = procs[h].val

----------------------------------------------------------------------------
(* Properties of concurrent renders *)

\* the template widget.tmpl
WidgetFile == <<"widget", ".tmpl">>

\* the sets a complete compile of the site directory builds, before and after
\* the widget page was created
CompleteSets ==
    { compileTemplates([site EXCEPT ![WidgetFile] = w], funcs).set :
          w \in {"absent", site[WidgetFile]} }

\* goroutine g has come back from engine.execute
Executed(g) == procs[g].kind = "render" /\ procs[g].pc = "done"

\* C24: when one request triggers a recompile while another request is
\* rendering, the rendering request executes against a complete registry,
\* the one before or the one after the recompile; it never observes a
\* registry that holds only part of the site's templates and never fails
\* with a missing template that exists on disk.
C24_NoTornReads ==
    \A g \in Goroutines :
        Executed(g) =>
            /\ procs[g].seen \in CompleteSets
            /\ procs[g].err =>
                   \E c \in CompleteSets : templateName(procs[g].file) \notin DOMAIN c

\* the registry goroutine g executed on, with the yield of a server that has
\* no layout
SeenAlone(g) == Registry([set |-> procs[g].seen, funcs |-> funcs])

\* goroutine g rendered, inside the layout and on a complete registry, a page
\* that its funcMapLayout had found in the registry
RenderedInLayout(g) ==
    /\ Executed(g) /\ layout # << >> /\ alive
    /\ procs[g].bound
    /\ procs[g].seen \in CompleteSets
    /\ templateName(procs[g].file) \in DOMAIN procs[g].seen

\* C25: with a layout configured, when two requests concurrently render two
\* different pages, or the same page with different environments, the yield
\* call inside each request's layout execution produces that request's own
\* page rendered with that request's own environment.
C25_YieldIsolation ==
    \A g \in Goroutines :
        RenderedInLayout(g) =>
            procs[g].out = Wrapped(procs[g].env,
                                   PageAlone(SeenAlone(g), procs[g].file,
                                             procs[g].env).out)

----------------------------------------------------------------------------
(* Properties of the yield recursion *)

\* C26: with a layout configured whose template calls yield, Render(name,
\* env) terminates for every logical template name, the name of the layout
\* itself included: the yield closure re-rendering the target does not recurse
\* until the stack is gone.
C26_RenderTerminates ==
    (last.op = "render" /\ layout # << >>) => alive

====
